---- MODULE Spec2Model ----
(***************************************************************************)
(* MASICOT position tracker (src/masicot_server.py).                       *)
(*                                                                         *)
(* The server keeps two module-level dicts, positions and                  *)
(* previous_positions.  Flask request threads run webhook() and            *)
(* manual_update(); a daemon thread runs run_scheduler(), which calls      *)
(* update_signals_sheet() on weekdays.  No lock protects the dicts, so the *)
(* threads interleave between any two dict operations (each single dict    *)
(* operation is atomic under the interpreter lock).                        *)
(*                                                                         *)
(* A Python dict is modelled as the sequence of its entries in insertion   *)
(* order, each entry a record [key, val].  JSON values are strings; the    *)
(* Python value None is the string "None".                                 *)
(***************************************************************************)
EXTENDS Integers, Sequences, FiniteSets, TLC

\* ---------------------------------------------------------------- bounds
\* Accepted upserts and started cycles in one behaviour.
MaxUpserts == 2
MaxCycles == 2

\* ------------------------------------------------------------ input sets
None == "None"
Absent == "<absent>"

\* Python compares str by code point; the code points of the symbols used.
CodePoints ==
    ("AAPL" :> <<65, 65, 80, 76>>) @@ ("MSFT" :> <<77, 83, 70, 84>>)

Symbols == DOMAIN CodePoints

\* "HOLD" stands for any string that is not one of the three canonical states.
States == {"LONG", "SHORT", "NEUTRAL", "HOLD"}

EmptyDict == [k \in {} |-> ""]

\* The optional fields of an event: all omitted, or all given.
Quotes ==
    { EmptyDict,
      ("price" :> "230.0") @@ ("stop" :> "225.5") @@ ("exchange" :> "NASDAQ") }

Field(k, v) == IF v = Absent THEN EmptyDict ELSE (k :> v)

\* request.json of a well-formed event.
WellFormed ==
    { ("symbol" :> s) @@ ("position" :> p) @@ q :
        s \in Symbols, p \in States, q \in Quotes }

\* request.json with symbol or position missing (the key is not there) or
\* empty.
Malformed ==
    { Field("symbol", s) @@ Field("position", p) @@ q :
        s \in {"AAPL", Absent, ""},
        p \in {"LONG", Absent, ""},
        q \in {EmptyDict} } \ WellFormed

Payloads == WellFormed \cup Malformed

\* The request threads that serve POST /webhook at the same time.
Requests == 1..MaxUpserts

\* The two threads that run update_signals_sheet: the scheduler thread and a
\* request thread serving GET /update-sheet.
Threads == {"scheduler", "manual"}

\* ------------------------------------------------------------ dict model
\* d.get(k, default) on a JSON object or a position record.
Get(d, k, default) == IF k \in DOMAIN d THEN d[k] ELSE default

\* list(d.keys()): the keys in insertion order.
DictKeys(d) == [i \in 1..Len(d) |-> d[i].key]

DictHas(d, k) == \E i \in 1..Len(d) : d[i].key = k

\* d.get(k, {}) on positions / previous_positions.
DictGet(d, k) ==
    IF DictHas(d, k)
    THEN d[CHOOSE i \in 1..Len(d) : d[i].key = k].val
    ELSE EmptyDict

\* Mutant: the new record is merged into the stored one, a field the event
\* left out keeping its old value.
DictSetMerge(d, k, v) ==
    IF DictHas(d, k)
    THEN [i \in 1..Len(d) |->
            IF d[i].key = k
            THEN [key |-> k,
                  val |-> [f \in DOMAIN v |->
                            IF f \in {"price", "stop"} /\ v[f] = None
                            THEN d[i].val[f] ELSE v[f]]]
            ELSE d[i]]
    ELSE Append(d, [key |-> k, val |-> v])

\* Mutant: the store rebinds the dict to one that holds the new entry alone.
DictSetAlone(d, k, v) == <<[key |-> k, val |-> v]>>

\* Mutant: storing a NEUTRAL record drops the symbol from the dict.
DictSetDropNeutral(d, k, v) ==
    IF v.position = "NEUTRAL"
    THEN SelectSeq(d, LAMBDA e : e.key # k)
    ELSE IF DictHas(d, k)
    THEN [i \in 1..Len(d) |-> IF d[i].key = k THEN [key |-> k, val |-> v] ELSE d[i]]
    ELSE Append(d, [key |-> k, val |-> v])

\* d[k] = v: an existing key keeps its place, a new key goes last.
DictSet(d, k, v) ==
    IF DictHas(d, k)
    THEN [i \in 1..Len(d) |-> IF d[i].key = k THEN [key |-> k, val |-> v] ELSE d[i]]
    ELSE Append(d, [key |-> k, val |-> v])

\* Mutant: the update stores nothing.
DictUpdateSkipped(d, other) == d

\* d.update(other): other's entries are stored into d in other's order.
RECURSIVE DictUpdate(_, _)
DictUpdate(d, other) ==
    IF other = <<>> THEN d
    ELSE DictUpdate(DictSet(d, Head(other).key, Head(other).val), Tail(other))

\* The dict as a mapping, the way Python's == compares two dicts.
AsMap(d) == [k \in {d[i].key : i \in 1..Len(d)} |-> DictGet(d, k)]

\* ------------------------------------------------------------- str order
\* Python's str.__lt__: the first differing code point decides, a proper
\* prefix is smaller.
RECURSIVE LexLess(_, _)
LexLess(a, b) ==
    IF b = <<>> THEN FALSE
    ELSE IF a = <<>> THEN TRUE
    ELSE IF Head(a) # Head(b) THEN Head(a) < Head(b)
    ELSE LexLess(Tail(a), Tail(b))

SymbolLess(x, y) == LexLess(CodePoints[x], CodePoints[y])

\* Mutant: the symbols in descending order.
RECURSIVE SortedDescending(_)
SortedDescending(S) ==
    IF S = {} THEN <<>>
    ELSE LET m == CHOOSE x \in S : \A y \in S \ {x} : SymbolLess(y, x)
         IN  <<m>> \o SortedDescending(S \ {m})

\* sorted(S) for a set of symbols.
RECURSIVE Sorted(_)
Sorted(S) ==
    IF S = {} THEN <<>>
    ELSE LET m == CHOOSE x \in S : \A y \in S \ {x} : SymbolLess(x, y)
         IN  <<m>> \o Sorted(S \ {m})

Range(s) == {s[i] : i \in 1..Len(s)}

\* ------------------------------------------------------ signal detection
\* Mutant: entries are reported unless the symbol was already on that side,
\* so a reversal counts as an entry.
ClassifyReversal(today_pos, yesterday_pos) ==
    IF today_pos = "LONG" /\ yesterday_pos # "LONG" THEN "NEW LONG"
    ELSE IF today_pos = "SHORT" /\ yesterday_pos # "SHORT" THEN "NEW SHORT"
    ELSE IF today_pos = "NEUTRAL" /\ yesterday_pos = "LONG" THEN "LONG EXIT"
    ELSE IF today_pos = "NEUTRAL" /\ yesterday_pos = "SHORT" THEN "SHORT EXIT"
    ELSE None

\* Mutant: entries are reported from today's state alone.
ClassifyNoBaseline(today_pos, yesterday_pos) ==
    IF today_pos = "LONG" THEN "NEW LONG"
    ELSE IF today_pos = "SHORT" THEN "NEW SHORT"
    ELSE IF today_pos = "NEUTRAL" /\ yesterday_pos = "LONG" THEN "LONG EXIT"
    ELSE IF today_pos = "NEUTRAL" /\ yesterday_pos = "SHORT" THEN "SHORT EXIT"
    ELSE None

\* Mutant: an exit is reported whenever today's state is neither side.
ClassifyAnyExit(today_pos, yesterday_pos) ==
    IF today_pos = "LONG" /\ yesterday_pos = "NEUTRAL" THEN "NEW LONG"
    ELSE IF today_pos = "SHORT" /\ yesterday_pos = "NEUTRAL" THEN "NEW SHORT"
    ELSE IF today_pos \notin {"LONG", "SHORT"} /\ yesterday_pos = "LONG"
         THEN "LONG EXIT"
    ELSE IF today_pos \notin {"LONG", "SHORT"} /\ yesterday_pos = "SHORT"
         THEN "SHORT EXIT"
    ELSE None

\* The if/elif chain of update_signals_sheet; None when no branch is taken.
Classify(today_pos, yesterday_pos) ==
    IF today_pos = "LONG" /\ yesterday_pos = "NEUTRAL" THEN "NEW LONG"
    ELSE IF today_pos = "SHORT" /\ yesterday_pos = "NEUTRAL" THEN "NEW SHORT"
    ELSE IF today_pos = "NEUTRAL" /\ yesterday_pos = "LONG" THEN "LONG EXIT"
    ELSE IF today_pos = "NEUTRAL" /\ yesterday_pos = "SHORT" THEN "SHORT EXIT"
    ELSE None

\* The four transitions of the specification's table: prior, today, signal.
SignalTable ==
    { <<"NEUTRAL", "LONG", "NEW LONG">>,
      <<"NEUTRAL", "SHORT", "NEW SHORT">>,
      <<"LONG", "NEUTRAL", "LONG EXIT">>,
      <<"SHORT", "NEUTRAL", "SHORT EXIT">> }

TableSignal(prior, today) ==
    IF \E r \in SignalTable : r[1] = prior /\ r[2] = today
    THEN (CHOOSE r \in SignalTable : r[1] = prior /\ r[2] = today)[3]
    ELSE None

\* A symbol's state in a mapping, absence meaning NEUTRAL.
StateIn(m, s) == IF s \in DOMAIN m THEN m[s].position ELSE "NEUTRAL"

\* Mutant: the state is read without the NEUTRAL default.
PositionOfNoDefault(d, symbol) == Get(DictGet(d, symbol), "position", None)

\* positions.get(symbol, {}).get('position', 'NEUTRAL')
PositionOf(d, symbol) == Get(DictGet(d, symbol), "position", "NEUTRAL")

\* ---------------------------------------------------------------- webhook
\* `not x` for a value that is None or a str.
Falsy(x) == x = None \/ x = ""

\* Mutant: only an event that lacks both fields is rejected.
RejectedIfBoth(symbol, position) == Falsy(symbol) /\ Falsy(position)

\* if not symbol or not position: return 400
Rejected(symbol, position) == Falsy(symbol) \/ Falsy(position)

\* The record webhook() stores for an event; updated is datetime.now().
PositionRecord(data, now) ==
    [ position |-> Get(data, "position", None),
      price    |-> Get(data, "price", None),
      stop     |-> Get(data, "stop", None),
      exchange |-> Get(data, "exchange", ""),
      updated  |-> now ]

\* The rows update_positions_sheet writes below the header.
PositionRows(d) ==
    LET order == Sorted(Range(DictKeys(d)))
    IN  [ i \in 1..Len(order) |->
            LET pos == DictGet(d, order[i])
            IN  [ symbol   |-> order[i],
                  position |-> pos.position,
                  price    |-> pos.price,
                  stop     |-> Get(pos, "stop", ""),
                  exchange |-> Get(pos, "exchange", ""),
                  updated  |-> pos.updated ] ]

\* Mutant: the rows are written below those already in the sheet.
UpdatePositionsSheetAppend(sheets, sheet, d) ==
    IF sheets = None THEN sheet ELSE sheet \o PositionRows(d)

\* What update_positions_sheet leaves in the sheet: it returns early without
\* a client, and rewrites the rows otherwise.  An API error there is caught
\* inside the function and reaches no state of the server.
UpdatePositionsSheet(sheets, sheet, d) ==
    IF sheets = None THEN sheet ELSE PositionRows(d)

\* ------------------------------------------------------------------ state
VARIABLES
    GOOGLE_CREDENTIALS_JSON,  \* configuration, read once from the environment
    positions,           \* module global
    previous_positions,  \* module global
    signals_sheet,       \* rows of the 'Signals' sheet, oldest first
    positions_sheet,     \* rows of the 'Current Positions' sheet
    cycle,               \* per thread: the frame of update_signals_sheet
    response,            \* status of the last /webhook response
    nUpserts,            \* accepted upserts so far (also the clock)
    nCycles,             \* cycles started so far
    owed,                \* history: per symbol, the signal its last upsert formed
    captured,            \* history: the copy of positions the last rotation stored
    request              \* per request thread: the frame of webhook()

vars ==
    << GOOGLE_CREDENTIALS_JSON, positions, previous_positions, signals_sheet, positions_sheet, cycle,
       response, nUpserts, nCycles, owed, captured, request >>

\* The locals of update_signals_sheet before it is entered.  The last four
\* fields are history: the records the loop read from positions, how the
\* delivery ended, whether this execution wrote previous_positions, and the
\* state at entry (previous_positions and the length of the signal log).
IdleFrame ==
    [ pc            |-> "idle",
      keys          |-> <<>>,
      all_symbols   |-> <<>>,
      i             |-> 0,
      today_pos     |-> None,
      yesterday_pos |-> None,
      signal_type   |-> None,
      price         |-> None,
      signals       |-> <<>>,
      copy          |-> <<>>,
      view          |-> EmptyDict,
      outcome       |-> "none",
      wrote         |-> FALSE,
      entry         |-> [previous |-> <<>>, rows |-> 0] ]

\* The locals of webhook() before a request is received; status is the HTTP
\* status the handler returns.
IdleRequest ==
    [ pc       |-> "idle",
      data     |-> EmptyDict,
      symbol   |-> None,
      exchange |-> None,
      position |-> None,
      price    |-> None,
      stop     |-> None,
      status   |-> 0 ]

\* get_sheets_service(): the client, or None when the credentials do not
\* load (the default, an empty string, does not).
get_sheets_service ==
    IF GOOGLE_CREDENTIALS_JSON = "service account" THEN "client" ELSE None

Init ==
    /\ GOOGLE_CREDENTIALS_JSON \in {"", "service account"}
    /\ positions = <<>>
    /\ previous_positions = <<>>
    /\ signals_sheet = <<>>
    /\ positions_sheet = <<>>
    /\ cycle = [t \in Threads |-> IdleFrame]
    /\ response = 0
    /\ nUpserts = 0
    /\ nCycles = 0
    /\ owed = [s \in Symbols |-> None]
    /\ captured = <<>>
    /\ request = [r \in Requests |-> IdleRequest]

\* POST /webhook with JSON body data, served with no other thread running in
\* between.
Webhook(data) ==
    LET symbol   == Get(data, "symbol", None)
        position == Get(data, "position", None)
    IN  IF Rejected(symbol, position)
        THEN /\ response' = 400
             /\ UNCHANGED << GOOGLE_CREDENTIALS_JSON, request, positions, previous_positions, signals_sheet,
                             positions_sheet, cycle, nUpserts, nCycles, owed,
                             captured >>
        ELSE /\ nUpserts < MaxUpserts
             /\ positions' = DictSet(positions, symbol,
                                     PositionRecord(data, nUpserts + 1))
             /\ positions_sheet' =
                    UpdatePositionsSheet(get_sheets_service, positions_sheet,
                                         positions')
             /\ response' = 200
             /\ nUpserts' = nUpserts + 1
             /\ owed' = [owed EXCEPT ![symbol] =
                            TableSignal(StateIn(AsMap(previous_positions), symbol),
                                        position)]
             /\ UNCHANGED << GOOGLE_CREDENTIALS_JSON, request, previous_positions, signals_sheet, cycle, nCycles,
                             captured >>

\* --------------------------------------- webhook, several requests in flight
\* The same handler on request thread r, one step per access to shared
\* state.  data = request.json, the six data.get(...) and the validation
\* touch only the thread's own locals.
WebhookReceive(r, data) ==
    /\ request[r].pc = "idle"
    /\ LET symbol   == Get(data, "symbol", None)
           position == Get(data, "position", None)
           f == [ IdleRequest EXCEPT
                    !.data     = data,
                    !.symbol   = symbol,
                    !.exchange = Get(data, "exchange", ""),
                    !.position = position,
                    !.price    = Get(data, "price", None),
                    !.stop     = Get(data, "stop", None) ]
       IN  request' = [request EXCEPT ![r] =
                IF Rejected(symbol, position)
                THEN [f EXCEPT !.pc = "respond", !.status = 400]
                ELSE [f EXCEPT !.pc = "store"]]
    /\ UNCHANGED << GOOGLE_CREDENTIALS_JSON, positions, previous_positions,
                    signals_sheet, positions_sheet, cycle, response, nUpserts,
                    nCycles, owed, captured >>

\* positions[symbol] = {...}: the dict is built from the locals and stored in
\* one dict operation.
WebhookStore(r) ==
    /\ request[r].pc = "store"
    /\ positions' = DictSet(positions, request[r].symbol,
                            [ position |-> request[r].position,
                              price    |-> request[r].price,
                              stop     |-> request[r].stop,
                              exchange |-> request[r].exchange,
                              updated  |-> nUpserts + 1 ])
    /\ nUpserts' = nUpserts + 1
    /\ owed' = [owed EXCEPT ![request[r].symbol] =
                    TableSignal(StateIn(AsMap(previous_positions),
                                        request[r].symbol),
                                request[r].position)]
    /\ request' = [request EXCEPT ![r].pc = "sheet"]
    /\ UNCHANGED << GOOGLE_CREDENTIALS_JSON, previous_positions, signals_sheet,
                    positions_sheet, cycle, response, nCycles, captured >>

\* update_positions_sheet(), from positions as it is by then.
WebhookSheet(r) ==
    /\ request[r].pc = "sheet"
    /\ positions_sheet' =
            UpdatePositionsSheet(get_sheets_service, positions_sheet, positions)
    /\ request' = [request EXCEPT ![r].pc = "respond", ![r].status = 200]
    /\ UNCHANGED << GOOGLE_CREDENTIALS_JSON, positions, previous_positions,
                    signals_sheet, cycle, response, nUpserts, nCycles, owed,
                    captured >>

\* return jsonify(...), status
WebhookRespond(r) ==
    /\ request[r].pc = "respond"
    /\ response' = request[r].status
    /\ request' = [request EXCEPT ![r].pc = "done"]
    /\ UNCHANGED << GOOGLE_CREDENTIALS_JSON, positions, previous_positions,
                    signals_sheet, positions_sheet, cycle, nUpserts, nCycles,
                    owed, captured >>


\* -------------------------------------------------- update_signals_sheet
\* Mutant: the exception of the append is swallowed before the rotation.
AfterAppendSwallowed(ok) == "clear"

\* Where control goes after sheets.values().append(...).execute(): on to the
\* rotation, or into the except clause when it raised.
AfterAppend(ok) == IF ok THEN "clear" ELSE "return"

\* Mutant: the rotation is inside `if signals:`, a cycle without signals
\* returning at once.
NextIterationRotateIfSignals(f) ==
    IF f.i < Len(f.all_symbols)
    THEN [f EXCEPT !.i = f.i + 1, !.pc = "today"]
    ELSE [f EXCEPT !.pc = IF f.signals # <<>> THEN "append" ELSE "return"]

\* The end of one loop iteration: the next symbol, or `if signals:`.
NextIteration(f) ==
    IF f.i < Len(f.all_symbols)
    THEN [f EXCEPT !.i = f.i + 1, !.pc = "today"]
    ELSE [f EXCEPT !.pc = IF f.signals # <<>> THEN "append" ELSE "clear"]

\* Entry: get_sheets_service() returns the client or None.
Enter(t) ==
    /\ cycle[t].pc = "idle"
    /\ nCycles < MaxCycles
    /\ nCycles' = nCycles + 1
    /\ LET sheets == get_sheets_service
       IN cycle' = [cycle EXCEPT ![t] =
            [ IdleFrame EXCEPT
                !.pc      = IF sheets = None THEN "return" ELSE "keys",
                !.outcome = IF sheets = None THEN "unavailable" ELSE "none",
                !.entry   = [ previous |-> previous_positions,
                              rows     |-> Len(signals_sheet) ] ] ]

\* schedule.run_pending() on the scheduler thread runs the job.
RunPending ==
    /\ Enter("scheduler")
    /\ UNCHANGED << GOOGLE_CREDENTIALS_JSON, request, positions, previous_positions, signals_sheet,
                    positions_sheet, response, nUpserts, owed, captured >>

\* GET /update-sheet: update_positions_sheet(), then update_signals_sheet().
ManualUpdate ==
    /\ positions_sheet' =
            UpdatePositionsSheet(get_sheets_service, positions_sheet, positions)
    /\ Enter("manual")
    /\ UNCHANGED << GOOGLE_CREDENTIALS_JSON, request, positions, previous_positions, signals_sheet, response,
                    nUpserts, owed, captured >>

\* list(positions.keys())
ReadKeys(t) ==
    /\ cycle[t].pc = "keys"
    /\ cycle' = [cycle EXCEPT ![t].keys = DictKeys(positions),
                              ![t].pc = "previous_keys"]
    /\ UNCHANGED << GOOGLE_CREDENTIALS_JSON, request, positions, previous_positions, signals_sheet,
                    positions_sheet, response, nUpserts, nCycles, owed,
                    captured >>

\* set(... + list(previous_positions.keys())), then sorted(all_symbols).
ReadPreviousKeys(t) ==
    /\ cycle[t].pc = "previous_keys"
    /\ LET all_symbols ==
            Sorted(Range(cycle[t].keys \o DictKeys(previous_positions)))
       IN  cycle' = [cycle EXCEPT ![t] =
                IF all_symbols = <<>>
                THEN [@ EXCEPT !.pc = "clear"]
                ELSE [@ EXCEPT !.all_symbols = all_symbols,
                               !.i = 1, !.pc = "today"]]
    /\ UNCHANGED << GOOGLE_CREDENTIALS_JSON, request, positions, previous_positions, signals_sheet,
                    positions_sheet, response, nUpserts, nCycles, owed,
                    captured >>

\* today_pos = positions.get(symbol, {}).get('position', 'NEUTRAL')
ReadToday(t) ==
    /\ cycle[t].pc = "today"
    /\ LET symbol == cycle[t].all_symbols[cycle[t].i]
       IN  cycle' = [cycle EXCEPT
                ![t].today_pos = PositionOf(positions, symbol),
                ![t].view = (symbol :> DictGet(positions, symbol)) @@ @,
                ![t].pc = "yesterday"]
    /\ UNCHANGED << GOOGLE_CREDENTIALS_JSON, request, positions, previous_positions, signals_sheet,
                    positions_sheet, response, nUpserts, nCycles, owed,
                    captured >>

\* yesterday_pos = previous_positions.get(...), then the if/elif chain.
ReadYesterday(t) ==
    /\ cycle[t].pc = "yesterday"
    /\ LET symbol        == cycle[t].all_symbols[cycle[t].i]
           yesterday_pos == PositionOf(previous_positions, symbol)
           signal_type   == Classify(cycle[t].today_pos, yesterday_pos)
           f == [cycle[t] EXCEPT !.yesterday_pos = yesterday_pos,
                                 !.signal_type = signal_type]
       IN  cycle' = [cycle EXCEPT ![t] =
                IF signal_type # None
                THEN [f EXCEPT !.pc = "price"]
                ELSE NextIteration(f)]
    /\ UNCHANGED << GOOGLE_CREDENTIALS_JSON, request, positions, previous_positions, signals_sheet,
                    positions_sheet, response, nUpserts, nCycles, owed,
                    captured >>

\* positions.get(symbol, {}).get('price', '')
ReadPrice(t) ==
    /\ cycle[t].pc = "price"
    /\ LET symbol == cycle[t].all_symbols[cycle[t].i]
       IN  cycle' = [cycle EXCEPT
                ![t].price = Get(DictGet(positions, symbol), "price", ""),
                ![t].pc = "stop"]
    /\ UNCHANGED << GOOGLE_CREDENTIALS_JSON, request, positions, previous_positions, signals_sheet,
                    positions_sheet, response, nUpserts, nCycles, owed,
                    captured >>

\* positions.get(symbol, {}).get('stop', ''), then signals.append([...]).
\* The date and time columns of the row are not modelled.
ReadStop(t) ==
    /\ cycle[t].pc = "stop"
    /\ LET symbol == cycle[t].all_symbols[cycle[t].i]
           row == [ symbol      |-> symbol,
                    signal_type |-> cycle[t].signal_type,
                    price       |-> cycle[t].price,
                    stop        |-> Get(DictGet(positions, symbol), "stop", "") ]
       IN  cycle' = [cycle EXCEPT ![t] =
                NextIteration([@ EXCEPT !.signals = Append(@, row)])]
    /\ UNCHANGED << GOOGLE_CREDENTIALS_JSON, request, positions, previous_positions, signals_sheet,
                    positions_sheet, response, nUpserts, nCycles, owed,
                    captured >>

\* sheets.values().append(body={'values': signals}).execute(): the rows are
\* appended, or the call raises and the except clause ends the cycle.
AppendSignals(t) ==
    /\ cycle[t].pc = "append"
    /\ \E ok \in BOOLEAN :
        /\ signals_sheet' =
                IF ok THEN signals_sheet \o cycle[t].signals ELSE signals_sheet
        /\ owed' =
                IF ok
                THEN [ s \in Symbols |->
                        IF \E r \in 1..Len(cycle[t].signals) :
                                /\ cycle[t].signals[r].symbol = s
                                /\ cycle[t].signals[r].signal_type = owed[s]
                        THEN None ELSE owed[s] ]
                ELSE owed
        /\ cycle' = [cycle EXCEPT
                ![t].pc = AfterAppend(ok),
                ![t].outcome = IF ok THEN "delivered" ELSE "raised"]
    /\ UNCHANGED << GOOGLE_CREDENTIALS_JSON, request, positions, previous_positions, positions_sheet, response,
                    nUpserts, nCycles, captured >>

\* previous_positions.clear()
Clear(t) ==
    /\ cycle[t].pc = "clear"
    /\ previous_positions' = <<>>
    /\ cycle' = [cycle EXCEPT ![t].pc = "copy", ![t].wrote = TRUE]
    /\ UNCHANGED << GOOGLE_CREDENTIALS_JSON, request, positions, signals_sheet, positions_sheet, response,
                    nUpserts, nCycles, owed, captured >>

\* positions.copy()
Copy(t) ==
    /\ cycle[t].pc = "copy"
    /\ cycle' = [cycle EXCEPT ![t].copy = positions, ![t].pc = "update"]
    /\ UNCHANGED << GOOGLE_CREDENTIALS_JSON, request, positions, previous_positions, signals_sheet,
                    positions_sheet, response, nUpserts, nCycles, owed,
                    captured >>

\* previous_positions.update(<the copy>)
Update(t) ==
    /\ cycle[t].pc = "update"
    /\ previous_positions' = DictUpdate(previous_positions, cycle[t].copy)
    /\ captured' = cycle[t].copy
    /\ cycle' = [cycle EXCEPT ![t].pc = "return", ![t].wrote = TRUE]
    /\ UNCHANGED << GOOGLE_CREDENTIALS_JSON, request, positions, signals_sheet, positions_sheet, response,
                    nUpserts, nCycles, owed >>

\* update_signals_sheet returns; its frame is gone.
Return(t) ==
    /\ cycle[t].pc = "return"
    /\ cycle' = [cycle EXCEPT ![t] = IdleFrame]
    /\ UNCHANGED << GOOGLE_CREDENTIALS_JSON, request, positions, previous_positions, signals_sheet,
                    positions_sheet, response, nUpserts, nCycles, owed,
                    captured >>

\* One step of update_signals_sheet on thread t.
Step(t) ==
    \/ ReadKeys(t)
    \/ ReadPreviousKeys(t)
    \/ ReadToday(t)
    \/ ReadYesterday(t)
    \/ ReadPrice(t)
    \/ ReadStop(t)
    \/ AppendSignals(t)
    \/ Clear(t)
    \/ Copy(t)
    \/ Update(t)
    \/ Return(t)

\* Request threads and the scheduler thread, freely interleaved.
Next ==
    \/ \E data \in Payloads : Webhook(data)
    \/ RunPending
    \/ ManualUpdate
    \/ \E t \in Threads : Step(t)

Spec == Init /\ [][Next]_vars

Idle(t) == cycle[t].pc = "idle"

\* The same operations when nothing overlaps: a cycle runs from entry to
\* return with no other cycle and no webhook in between.
NextSerial ==
    \/ (\A t \in Threads : Idle(t)) /\ \E data \in Payloads : Webhook(data)
    \/ (\A t \in Threads : Idle(t)) /\ RunPending
    \/ (\A t \in Threads : Idle(t)) /\ ManualUpdate
    \/ \E t \in Threads : Step(t)

SpecSerial == Init /\ [][NextSerial]_vars

\* Cycles one at a time, as when only the scheduler thread runs them, with
\* webhooks arriving at any point of a cycle.
NextExclusive ==
    \/ \E data \in Payloads : Webhook(data)
    \/ (\A t \in Threads : Idle(t)) /\ RunPending
    \/ (\A t \in Threads : Idle(t)) /\ ManualUpdate
    \/ \E t \in Threads : Step(t)

SpecExclusive == Init /\ [][NextExclusive]_vars

\* Request threads serving POST /webhook at the same time, each at its own
\* point of the handler.
NextUpserts ==
    \/ \E r \in Requests : \E data \in Payloads : WebhookReceive(r, data)
    \/ \E r \in Requests : WebhookStore(r)
    \/ \E r \in Requests : WebhookSheet(r)
    \/ \E r \in Requests : WebhookRespond(r)

SpecUpserts == Init /\ [][NextUpserts]_vars

\* Nothing overlaps and every accepted event carries one of the three
\* states the signal detection names.
NextCanonical ==
    \/ /\ \A t \in Threads : Idle(t)
       /\ \E data \in Payloads :
            /\ Get(data, "position", None) \in {"LONG", "SHORT", "NEUTRAL", None, ""}
            /\ Webhook(data)
    \/ (\A t \in Threads : Idle(t)) /\ RunPending
    \/ (\A t \in Threads : Idle(t)) /\ ManualUpdate
    \/ \E t \in Threads : Step(t)

SpecCanonical == Init /\ [][NextCanonical]_vars

\* ================================================================ claims
Failed(t) == cycle[t].outcome \in {"unavailable", "raised"}

\* The view of positions a cycle diffed: the records its loop read.
DiffedView(t) ==
    [ s \in {x \in DOMAIN cycle[t].view : cycle[t].view[x] # EmptyDict} |->
        cycle[t].view[s] ]

\* C1: a cycle whose delivery failed (the append raised, or there was no
\* client) returns without having written previous_positions:
\* previous_positions is what it was when the cycle was entered, whatever
\* upserts arrived during the cycle.
C1_FailedCycleKeepsBaseline ==
    \A t \in Threads :
        (cycle[t].pc = "return" /\ Failed(t)) =>
            /\ ~cycle[t].wrote
            /\ previous_positions = cycle[t].entry.previous

\* C1 witness: an append raised while positions had moved away from a
\* non-empty baseline.
C1_Witness ==
    \E t \in Threads :
        /\ cycle[t].pc = "return"
        /\ cycle[t].outcome = "raised"
        /\ previous_positions # <<>>
        /\ AsMap(positions) # AsMap(previous_positions)

\* C2: after a cycle that rotated, previous_positions equals the view of
\* positions the cycle diffed, field for field, whatever upserts interleave.
C2_PreviousIsDiffedView ==
    \A t \in Threads :
        (cycle[t].pc = "return" /\ cycle[t].wrote) =>
            AsMap(previous_positions) = DiffedView(t)

\* C3: no signal is lost.  When no cycle is running, a signal that the last
\* upsert of a symbol formed and that has not been appended is still the
\* transition between previous_positions and positions, so the next
\* delivered cycle appends it.
C3_NoSignalLost ==
    (\A t \in Threads : Idle(t)) =>
        \A s \in Symbols :
            owed[s] # None =>
                TableSignal(StateIn(AsMap(previous_positions), s),
                            StateIn(AsMap(positions), s)) = owed[s]

\* C4: every row of a cycle carries the price and stop of the record its
\* signal type was decided from.
C4_RowFromOneRecord ==
    \A t \in Threads :
        \A r \in 1..Len(cycle[t].signals) :
            LET row == cycle[t].signals[r]
                rec == cycle[t].view[row.symbol]
            IN  /\ row.price = Get(rec, "price", "")
                /\ row.stop = Get(rec, "stop", "")

\* C5: previous_positions is never partially updated: in every state it is
\* empty because no cycle has rotated, or it is the copy of positions that
\* the last rotating cycle stored.
C5_PreviousNeverPartial == previous_positions = captured

\* C6: no two executions of update_signals_sheet are in progress at once.
C6_CyclesSerialized ==
    Cardinality({t \in Threads : ~Idle(t)}) <= 1

\* The signals the specification's table gives for two mappings.
Signalled(cur, prev) ==
    { s \in DOMAIN cur \cup DOMAIN prev :
        TableSignal(StateIn(prev, s), StateIn(cur, s)) # None }

\* C7: the signals of a cycle are exactly those of the 4-row table over the
\* union of positions and previous_positions, absence meaning NEUTRAL; every
\* other pair of states gives none, and a symbol gives at most one.
C7_ClassifiesPerTable ==
    \A t \in Threads :
        cycle[t].pc \in {"append", "clear"} =>
            LET cur  == AsMap(positions)
                prev == AsMap(previous_positions)
                rows == cycle[t].signals
            IN  /\ { <<rows[r].symbol, rows[r].signal_type>> : r \in 1..Len(rows) }
                     = { <<s, TableSignal(StateIn(prev, s), StateIn(cur, s))>> :
                            s \in Signalled(cur, prev) }
                /\ Cardinality({ rows[r].symbol : r \in 1..Len(rows) }) = Len(rows)

\* C7 witness: a cycle that found a LONG -> SHORT reversal and no signal.
C7_Witness ==
    \E t \in Threads : \E s \in Symbols :
        /\ cycle[t].pc = "clear"
        /\ cycle[t].signals = <<>>
        /\ StateIn(AsMap(previous_positions), s) = "LONG"
        /\ StateIn(AsMap(positions), s) = "SHORT"

\* The batch the specification asks for: one row per signalled symbol, in
\* ascending code-point order of symbol, from the two mappings alone.
ExpectedBatch(cur, prev) ==
    LET sig == Signalled(cur, prev)
        rank(s) == 1 + Cardinality({x \in sig : LexLess(CodePoints[x], CodePoints[s])})
    IN  [ i \in 1..Cardinality(sig) |->
            LET s == CHOOSE x \in sig : rank(x) = i
            IN  [ symbol      |-> s,
                  signal_type |-> TableSignal(StateIn(prev, s), StateIn(cur, s)),
                  price       |-> IF s \in DOMAIN cur THEN cur[s].price ELSE "",
                  stop        |-> IF s \in DOMAIN cur THEN cur[s].stop ELSE "" ] ]

\* C8: the batch of a cycle is in ascending lexicographic order of symbol and
\* is determined by the two mappings, not by the order the upserts came in.
C8_BatchAscending ==
    \A t \in Threads :
        cycle[t].pc \in {"append", "clear"} =>
            cycle[t].signals =
                ExpectedBatch(AsMap(positions), AsMap(previous_positions))

\* C8 witness: two signals in one batch, the upserts having arrived in
\* descending order of symbol.
C8_Witness ==
    \E t \in Threads :
        /\ cycle[t].pc = "append"
        /\ Len(cycle[t].signals) = 2
        /\ DictKeys(positions) = <<"MSFT", "AAPL">>

\* C9: a cycle run while previous_positions equals positions finds no
\* signal, appends nothing and changes neither mapping.  E being
\* previous_positions at entry: as long as positions is E, every step of the
\* cycle leaves positions and the signal log alone and collects no signal,
\* and the cycle returns with previous_positions equal to E.
C9_Idempotent ==
    [][ \A t \in Threads :
            ( /\ ~Idle(t)
              /\ AsMap(positions) = AsMap(cycle[t].entry.previous) )
            => ( /\ positions' = positions
                 /\ signals_sheet' = signals_sheet
                 /\ Len(signals_sheet) = cycle[t].entry.rows
                 /\ cycle'[t].signals = <<>>
                 /\ cycle[t].pc = "return" =>
                        AsMap(previous_positions) = AsMap(positions)
                 /\ cycle'[t].pc = "return" =>
                        AsMap(previous_positions') = AsMap(positions) ) ]_vars

\* C9 witness: a second cycle, entered right after one that logged a signal
\* and rotated, has rotated again.
C9_Witness ==
    \E t \in Threads :
        /\ cycle[t].pc = "return"
        /\ cycle[t].wrote
        /\ cycle[t].entry.previous # <<>>
        /\ AsMap(positions) = AsMap(cycle[t].entry.previous)
        /\ cycle[t].entry.rows > 0

MissingOrEmpty(data, k) == k \notin DOMAIN data \/ data[k] = ""

\* C10: an event whose symbol or position is missing or empty is answered
\* 400 and changes neither positions nor previous_positions.
C10_RejectedUpsertChangesNothing ==
    [][ \A data \in Payloads :
            ( /\ MissingOrEmpty(data, "symbol") \/ MissingOrEmpty(data, "position")
              /\ Webhook(data) )
            => ( /\ response' = 400
                 /\ positions' = positions
                 /\ previous_positions' = previous_positions ) ]_vars

\* C10 witness: an event was rejected while both mappings held records.
C10_Witness ==
    /\ response = 400
    /\ positions # <<>>
    /\ previous_positions # <<>>

\* An optional field of an event as a record holds it: the value given, or
\* the field's empty value when the event left it out.
FieldOrEmpty(data, k, empty) == IF k \in DOMAIN data THEN data[k] ELSE empty

\* C11: an accepted upsert for symbol S replaces S's record wholesale and
\* changes nothing else: positions[S] then holds exactly the event's state,
\* price, stop and exchange (a field the event omitted is empty, whatever the
\* superseded record held), every other symbol's record is unchanged,
\* positions has exactly one record for S, and previous_positions is
\* unchanged.
C11_UpsertReplacesOneRecord ==
    [][ \A data \in WellFormed :
            Webhook(data) =>
                LET S   == data.symbol
                    rec == AsMap(positions')[S]
                IN  /\ response' = 200
                    /\ rec.position = data.position
                    /\ rec.price = FieldOrEmpty(data, "price", None)
                    /\ rec.stop = FieldOrEmpty(data, "stop", None)
                    /\ rec.exchange = FieldOrEmpty(data, "exchange", "")
                    /\ Cardinality({i \in 1..Len(positions') :
                                        positions'[i].key = S}) = 1
                    /\ DOMAIN AsMap(positions') = DOMAIN AsMap(positions) \cup {S}
                    /\ \A s \in DOMAIN AsMap(positions) \ {S} :
                            AsMap(positions')[s] = AsMap(positions)[s]
                    /\ previous_positions' = previous_positions ]_vars

\* C11 witness: an event without price and stop has superseded a record that
\* had both (the baseline still holds the superseded record).
C11_Witness ==
    \E S \in Symbols :
        /\ response = 200
        /\ DictHas(positions, S) /\ DictHas(previous_positions, S)
        /\ DictGet(positions, S).price = None
        /\ DictGet(positions, S).updated = nUpserts
        /\ DictGet(previous_positions, S).price = "230.0"

\* A request whose store has been executed.
Stored(r) == request[r].pc = "sheet" \/ request[r].status = 200

\* The four event fields of a record, and what an event gives for them.
RecordFields(rec) ==
    [ position |-> rec.position, price |-> rec.price,
      stop |-> rec.stop, exchange |-> rec.exchange ]

EventFields(data) ==
    [ position |-> data.position,
      price    |-> FieldOrEmpty(data, "price", None),
      stop     |-> FieldOrEmpty(data, "stop", None),
      exchange |-> FieldOrEmpty(data, "exchange", "") ]

\* C12: upsert is safe under concurrent invocation.  With several webhook
\* requests in flight, every record of positions consists of the fields of
\* exactly one of the events stored for its symbol, and every event that was
\* stored left its symbol in positions: no upsert is lost.
C12_ConcurrentUpsertsSafe ==
    /\ \A S \in DOMAIN AsMap(positions) :
            \E r \in Requests :
                /\ Stored(r)
                /\ request[r].data.symbol = S
                /\ RecordFields(AsMap(positions)[S]) = EventFields(request[r].data)
    /\ \A r \in Requests :
            Stored(r) => request[r].data.symbol \in DOMAIN AsMap(positions)

\* C12 witness: two requests in flight at once, past their stores and before
\* their responses, for different symbols, both records in positions.
C12_Witness ==
    \E r1, r2 \in Requests :
        /\ request[r1].pc = "sheet" /\ request[r2].pc = "sheet"
        /\ request[r1].symbol # request[r2].symbol
        /\ Len(positions) = 2

\* The symbol and signal type of each row, in order.
Emitted(rows) ==
    [r \in 1..Len(rows) |-> <<rows[r].symbol, rows[r].signal_type>>]

\* Thread t is returning from a delivered cycle that ran after the n-th upsert
\* of the behaviour, that upsert having set S, the only symbol, to state p.
DeliveredAfter(t, n, S, p) ==
    /\ cycle[t].pc = "return"
    /\ cycle[t].outcome = "delivered"
    /\ nUpserts = n
    /\ DictKeys(positions) = <<S>>
    /\ DictGet(positions, S).position = p
    /\ DictGet(positions, S).updated = n

\* The second cycle of the trace: its baseline is the record of the first
\* upsert, S -> LONG, rotated in by the cycle that followed that upsert.
ExitCycle(t, S) ==
    /\ DeliveredAfter(t, 2, S, "NEUTRAL")
    /\ DictKeys(cycle[t].entry.previous) = <<S>>
    /\ DictGet(cycle[t].entry.previous, S).position = "LONG"
    /\ DictGet(cycle[t].entry.previous, S).updated = 1

\* C13: entry-then-exit trace.  From an empty ledger, upsert S -> LONG and a
\* delivered cycle emit exactly one signal, NEW LONG for S; then upsert
\* S -> NEUTRAL and another delivered cycle emit exactly one signal, LONG
\* EXIT for S, so the log holds these two rows and no other.
C13_EntryThenExit ==
    \A t \in Threads : \A S \in Symbols :
        /\ DeliveredAfter(t, 1, S, "LONG") =>
                /\ Emitted(cycle[t].signals) = << <<S, "NEW LONG">> >>
                /\ Emitted(signals_sheet) = << <<S, "NEW LONG">> >>
        /\ ExitCycle(t, S) =>
                /\ Emitted(cycle[t].signals) = << <<S, "LONG EXIT">> >>
                /\ Emitted(signals_sheet) =
                        << <<S, "NEW LONG">>, <<S, "LONG EXIT">> >>

\* C13 witness: the second delivered cycle of the trace is returning.
C13_Witness == \E t \in Threads : \E S \in Symbols : ExitCycle(t, S)

Canonical == {"LONG", "SHORT", "NEUTRAL"}

\* C14: an upsert whose state is a non-empty string other than LONG, SHORT
\* or NEUTRAL is answered 200 and its state stored verbatim; and a cycle
\* emits no signal for a symbol whose state in positions or in
\* previous_positions is such a string, whatever the other side is.
C14_UnrecognizedStateNoSignal ==
    [][ /\ \A data \in WellFormed :
                (data.position \notin Canonical /\ Webhook(data)) =>
                    /\ response' = 200
                    /\ DictGet(positions', data.symbol).position = data.position
        /\ \A t \in Threads :
                cycle[t].pc \in {"append", "clear"} =>
                    \A r \in 1..Len(cycle[t].signals) :
                        LET S == cycle[t].signals[r].symbol
                        IN  /\ StateIn(AsMap(positions), S) \in Canonical
                            /\ StateIn(AsMap(previous_positions), S) \in Canonical
      ]_vars

\* C14 witness: a cycle has gone through a symbol that went from LONG to an
\* unrecognized state and collected no signal.
C14_Witness ==
    \E t \in Threads : \E S \in Symbols :
        /\ cycle[t].pc = "clear"
        /\ cycle[t].signals = <<>>
        /\ StateIn(AsMap(previous_positions), S) = "LONG"
        /\ StateIn(AsMap(positions), S) \notin Canonical

Mirrors(sheet, m) ==
    /\ Len(sheet) = Cardinality(DOMAIN m)
    /\ \A i \in 1..Len(sheet) :
            /\ sheet[i].symbol \in DOMAIN m
            /\ RecordFields(sheet[i]) = RecordFields(m[sheet[i].symbol])
            /\ sheet[i].updated = m[sheet[i].symbol].updated
    /\ \A S \in DOMAIN m : \E i \in 1..Len(sheet) : sheet[i].symbol = S

C16_RotationReplacesPrevious ==
    [][ \A t \in Threads :
            /\ cycle'[t] # cycle[t] => positions' = positions
            /\ (cycle[t].pc = "update" /\ cycle'[t].pc = "return") =>
                    AsMap(previous_positions') = AsMap(cycle[t].copy) ]_vars

\* The rows of the signal log for one symbol, oldest first.
RowsOf(S) == SelectSeq(signals_sheet, LAMBDA row : row.symbol = S)

IsEntry(signal_type) == signal_type \in {"NEW LONG", "NEW SHORT"}

IsExit(signal_type) == signal_type \in {"LONG EXIT", "SHORT EXIT"}

C18_PreviousWithinCurrent ==
    /\ Range(DictKeys(previous_positions)) \subseteq Range(DictKeys(positions))
    /\ \A t \in Threads :
            \A S \in DOMAIN cycle[t].view :
                DictHas(previous_positions, S) => cycle[t].view[S] # EmptyDict

\* C18 witness: a cycle has just read today's state of a symbol that is in
\* previous_positions, while positions holds a symbol that
\* previous_positions lacks.
C18_Witness ==
    \E t \in Threads : \E S \in Symbols :
        /\ cycle[t].pc = "yesterday"
        /\ S \in DOMAIN cycle[t].view
        /\ DictHas(previous_positions, S)
        /\ Len(previous_positions) < Len(positions)

\* C19: a cycle that classifies no signal while the client is available
\* makes no append to the signal log and still rotates, so that
\* previous_positions equals positions when it returns; in particular the
\* baseline of a symbol that went from LONG to SHORT is SHORT, with nothing
\* logged.
C19_SilentCycleRotates ==
    \A t \in Threads :
        ( /\ cycle[t].pc = "return"
          /\ get_sheets_service # None
          /\ cycle[t].signals = <<>> )
        => /\ cycle[t].outcome = "none"
           /\ Len(signals_sheet) = cycle[t].entry.rows
           /\ cycle[t].wrote
           /\ AsMap(previous_positions) = AsMap(positions)
           /\ \A S \in Symbols :
                ( /\ StateIn(AsMap(cycle[t].entry.previous), S) = "LONG"
                  /\ StateIn(AsMap(positions), S) = "SHORT" )
                => StateIn(AsMap(previous_positions), S) = "SHORT"

\* C19 witness: a cycle entered with baseline LONG for a symbol that is now
\* SHORT is returning with no signal collected.
C19_Witness ==
    \E t \in Threads : \E S \in Symbols :
        /\ cycle[t].pc = "return"
        /\ get_sheets_service # None
        /\ cycle[t].signals = <<>>
        /\ StateIn(AsMap(cycle[t].entry.previous), S) = "LONG"
        /\ StateIn(AsMap(positions), S) = "SHORT"

====
